---------------------------- MODULE Spec2Model ----------------------------
(***************************************************************************)
(* A model of the simulation engine of algame (core/engine/custom.py):     *)
(* Position, AssetProcessor and CustomEngine.                              *)
(*                                                                         *)
(* Prices, sizes and capital are integers.  A bar is identified by its     *)
(* 1-based place in the series, which also serves as its timestamp (the    *)
(* index of the DataFrame is increasing).  Python's None for an optional   *)
(* price level is NoLevel: the code tests the levels by truthiness         *)
(* ("if self.stop_loss and ..."), so None and 0 behave alike.              *)
(***************************************************************************)
EXTENDS Integers, Sequences, FiniteSets, TLC

\* ------------------------------------------------------------- bounds
MaxBars == 3
MaxPrice == 2
MaxSize == 1
MaxSignals == 2
MaxAssets == 2
MaxTime == 2
MaxTrades == 1
MaxWorkers == 2
MaxCombos == 3
MaxValue == 2
MaxParams == 2
MaxValues == 2
MaxParamValue == 2
MaxConstraints == 1
MaxEvals == 2
MaxDraws == 3
MaxOrders == 2
MaxLimit == 1
MaxEngines == 3

\* --------------------------------------------------- program constants
InitialCapital == 100000
CommissionPerMille == 1
NoLevel == 0

Prices == 1..MaxPrice
Levels == {NoLevel} \cup Prices
Sizes == (-1)..MaxSize

Abs(x) == IF x < 0 THEN -x ELSE x

\* ---------------------------------------------------------- Position
\* self.position is None
NoPosition == [present |-> FALSE]

\* Position.__init__: unrealized_pnl is not an attribute of a new Position;
\* it exists only once update() has run (has_unrealized).
NewPosition(size, entry_price, entry_time, stop_loss, take_profit) ==
    [present |-> TRUE, size |-> size, entry_price |-> entry_price,
     entry_time |-> entry_time, stop_loss |-> stop_loss,
     take_profit |-> take_profit,
     has_unrealized |-> FALSE, unrealized_pnl |-> 0]

\* Position.update
PositionUpdate(p, current_price) ==
    [p EXCEPT !.has_unrealized = TRUE,
              !.unrealized_pnl = (current_price - p.entry_price) * p.size]

\* Position.should_exit
ShouldExit(p, current_price) ==
    LET stopHit ==
            IF p.stop_loss # NoLevel /\ p.size > 0
            THEN current_price <= p.stop_loss
            ELSE IF p.stop_loss # NoLevel /\ p.size < 0
                 THEN current_price >= p.stop_loss
                 ELSE FALSE
        targetHit ==
            IF p.take_profit # NoLevel /\ p.size > 0
            THEN current_price >= p.take_profit
            ELSE IF p.take_profit # NoLevel /\ p.size < 0
                 THEN current_price <= p.take_profit
                 ELSE FALSE
    IN stopHit \/ targetHit

\* ------------------------------------------------------ AssetProcessor
\* AssetProcessor._calculate_fees, in thousandths of a currency unit
CalculateFees(price, size) == Abs(price * size * CommissionPerMille)

\* the pnl of AssetProcessor._close_position
ClosePnlUnsigned(price, p) == (price - p.entry_price) * Abs(p.size)

ClosePnl(price, p) == (price - p.entry_price) * p.size

\* the TradeStats record of AssetProcessor._close_position; return_pct is
\* (price / entry_price - 1) * 100, kept as the exact fraction num / den
TradeOf(p, price, time) ==
    [entry_time |-> p.entry_time, exit_time |-> time,
     entry_price |-> p.entry_price, exit_price |-> price,
     size |-> p.size, pnl |-> ClosePnl(price, p),
     return_pct |-> [num |-> (price - p.entry_price) * 100,
                     den |-> p.entry_price],
     fees |-> CalculateFees(price, p.size)]

\* The mutable fields of an AssetProcessor are handled as one record
\* [position, equity, trades, escaped]; escaped says that an exception is
\* propagating out of _process_bar.

\* AssetProcessor._close_position
ClosePosition(s, price, time) ==
    IF s.position.present
    THEN [s EXCEPT !.trades = Append(s.trades, TradeOf(s.position, price, time)),
                   !.position = NoPosition]
    ELSE s

\* AssetProcessor._open_long
OpenLong(s, size, price, time, stop_loss, take_profit) ==
    [s EXCEPT !.position =
                  NewPosition(size, price, time, stop_loss, take_profit)]

\* AssetProcessor._open_short
OpenShort(s, size, price, time, stop_loss, take_profit) ==
    [s EXCEPT !.position =
                  NewPosition(-size, price, time, stop_loss, take_profit)]

\* One iteration of the loop of AssetProcessor._process_signals
ApplySignal(s, signal, price, time) ==
    LET c == IF s.position.present /\ signal.close_existing
             THEN ClosePosition(s, price, time)
             ELSE s
    IN CASE signal.action = "buy" ->
              OpenLong(c, signal.size, price, time,
                       signal.stop_loss, signal.take_profit)
         [] signal.action = "sell" ->
              OpenShort(c, signal.size, price, time,
                        signal.stop_loss, signal.take_profit)
         [] signal.action = "close" -> ClosePosition(s, price, time)
         [] OTHER -> s

\* AssetProcessor._process_signals
RECURSIVE ProcessSignals(_, _, _, _)
ProcessSignals(s, signals, price, time) ==
    IF signals = <<>>
    THEN s
    ELSE ProcessSignals(ApplySignal(s, Head(signals), price, time),
                        Tail(signals), price, time)

\* The first part of AssetProcessor._process_bar: update the open position
\* and close it when its stop-loss or take-profit is reached
CheckStops(s, price, time) ==
    IF s.position.present
    THEN LET u == [s EXCEPT !.position = PositionUpdate(s.position, price)]
         IN IF ShouldExit(u.position, price)
            THEN ClosePosition(u, price, time)
            ELSE u
    ELSE s

\* What strategy.next does on a bar: it raises, or returns a list of signals
OpenSignals ==
    [action : {"buy", "sell"}, size : Sizes, stop_loss : Levels,
     take_profit : Levels, close_existing : BOOLEAN]

PlainSignals ==
    [action : {"close", "hold"}, size : {1}, stop_loss : {NoLevel},
     take_profit : {NoLevel}, close_existing : {TRUE}]

Signals == OpenSignals \cup PlainSignals

SignalLists == UNION {[1..n -> Signals] : n \in 0..MaxSignals}

\* The try block of AssetProcessor._process_bar on what strategy.next did
\* (out.raised, or the list out.signals): an exception is caught and logged,
\* so none escapes (escaped stays FALSE); a falsy result is skipped
StrategyStepUncaught(s, out, price, time) ==
    IF out.raised
    THEN [s EXCEPT !.escaped = TRUE]
    ELSE IF out.signals = <<>>
         THEN s
         ELSE ProcessSignals(s, out.signals, price, time)

StrategyStep(s, out, price, time) ==
    IF out.raised
    THEN s
    ELSE IF out.signals = <<>>
         THEN s
         ELSE ProcessSignals(s, out.signals, price, time)

\* AssetProcessor._calculate_equity reads position.unrealized_pnl, which a
\* position opened on this bar does not have: AttributeError
EquityRaises(s) == s.position.present /\ ~s.position.has_unrealized

\* AssetProcessor._calculate_equity
CalculateEquity(s) ==
    IF s.position.present
    THEN s.equity[Len(s.equity)] + s.position.unrealized_pnl
    ELSE s.equity[Len(s.equity)]

\* -------------------------------------------------------- CustomEngine
\* Asset symbols, numbered in the alphabetical order of their names
Symbols == 1..MaxAssets

\* Bar timestamps of the assets' data
Times == 1..MaxTime

\* A TradeStats of an asset's result.  symbol and n (its place in the asset's
\* list) tell the trades apart in properties; TradeStats has no such fields
\* and the code never reads them.
ResultTrade(a, k, t) ==
    [symbol |-> a, n |-> k,
     stats |-> TradeOf(NewPosition(1, 1, t, NoLevel, NoLevel), 1, t)]

\* What an asset's result looks like, whatever the asset: the timestamps of
\* its bars and the entry times of its trades, at most MaxTrades, in the
\* order they were recorded (entry times do not decrease)
ResultShapes ==
    UNION {UNION {{[bars |-> S, entries |-> f] :
                      f \in {g \in [1..n -> S] :
                                \A i \in 1..n, j \in 1..n :
                                    i <= j => g[i] <= g[j]}} :
                  n \in 0..MaxTrades} :
           S \in (SUBSET Times) \ {{}}}

\* AssetProcessor.run, lines 110-114: the dict {'symbol', 'equity', 'trades'};
\* equity is the Series, a function from the asset's bar timestamps
AssetResult(a, sh) ==
    [raised |-> FALSE, symbol |-> a,
     equity |-> [t \in sh.bars |-> InitialCapital],
     trades |-> [k \in 1..Len(sh.entries) |->
                    ResultTrade(a, k, sh.entries[k])]]

\* p.run() raised
RunRaised == [raised |-> TRUE]

\* pd.concat([...], axis=1).sum(axis=1) at timestamp t: the outer join leaves
\* NaN where a series has no value at t, and sum skips NaN
RECURSIVE SumAt(_, _)
SumAt(results, t) ==
    IF results = <<>>
    THEN 0
    ELSE (IF t \in DOMAIN results[1].equity THEN results[1].equity[t] ELSE 0)
            + SumAt(Tail(results), t)

\* total_equity of CustomEngine._combine_results
CombineEquityFirstOnly(results) == results[1].equity

CombineEquity(results) ==
    [t \in UNION {DOMAIN results[i].equity : i \in 1..Len(results)} |->
        SumAt(results, t)]

\* all_trades.extend(r['trades']) for r in results
RECURSIVE ExtendTrades(_)
ExtendTrades(results) ==
    IF results = <<>>
    THEN <<>>
    ELSE results[1].trades \o ExtendTrades(Tail(results))

\* list.sort(key=lambda x: x.entry_time) is stable: x goes behind every
\* element whose key is not greater
RECURSIVE InsertByEntryTime(_, _)
InsertByEntryTime(sorted, x) ==
    IF sorted = <<>>
    THEN <<x>>
    ELSE IF sorted[Len(sorted)].stats.entry_time <= x.stats.entry_time
         THEN Append(sorted, x)
         ELSE Append(InsertByEntryTime(SubSeq(sorted, 1, Len(sorted) - 1), x),
                     sorted[Len(sorted)])

RECURSIVE SortFrom(_, _)
SortFrom(sorted, rest) ==
    IF rest = <<>>
    THEN sorted
    ELSE SortFrom(InsertByEntryTime(sorted, rest[1]), Tail(rest))

\* all_trades.sort(key=lambda x: x.entry_time)
SortByEntryTimeUnsorted(ts) == ts

SortByEntryTime(ts) == SortFrom(<<>>, ts)

\* CustomEngine._combine_results: the BacktestResult.  Its other fields
\* (positions, metrics, drawdowns, returns, exposure, start and end date) are
\* computed from these two.
CombineResults(results) ==
    [equity_curve |-> CombineEquity(results),
     trades |-> SortByEntryTime(ExtendTrades(results))]

NoResult == [equity_curve |-> <<>>, trades |-> <<>>]

\* ------------------------------------------------------------- state
VARIABLES
    closes,     \* the Close column of the asset's data, one price per bar
    pc,         \* AssetProcessor.run: "idle", "start", "running", "returned",
                \* "raised"
    error,      \* the exception run raised, "none" while it has not
    idx,        \* the bars _process_bar has been called on
    position,   \* AssetProcessor.position
    equity,     \* AssetProcessor.equity
    trades,     \* AssetProcessor.trades
    lastRaised  \* history: strategy.next raised on the last bar processed

procVars == <<closes, pc, error, idx, position, equity, trades, lastRaised>>

\* A call of AssetProcessor._close_position taken alone
VARIABLES
    cpos,       \* the processor's position before, and after, the call
    ctrades     \* the processor's trades

closeVars == <<cpos, ctrades>>

\* A call of CustomEngine.run_backtest, optimize_strategy or _combine_results
VARIABLES
    call,       \* the method called
    supplied,   \* the symbols, in the order of self._data.items()
    outcome,    \* what each task handed to the pool does when it runs
    wstate,     \* where each task is in the ProcessPoolExecutor
    completed,  \* the tasks in the order in which they completed
    consumed,   \* the tasks whose outcome the caller has taken, in order
    results,    \* the caller's list `results`
    epc,        \* where the caller is
    eerror,     \* the exception the call raised
    elog,       \* the parameter sets whose failure was logged
    result,     \* the value the call returned
    inner       \* for each task of optimize_strategy, the asset tasks of
                \* the pool its run_backtest opens: queued and running

engVars == <<call, supplied, outcome, wstate, completed, consumed, results,
             epc, eerror, elog, result, inner>>

\* A call of CustomEngine._generate_param_combos, and the same call again
VARIABLES
    gspace,       \* parameter_space: the value list of each parameter, in
                  \* the order of the dict
    gmethod,      \* method
    gmaxevals,    \* max_evals; NoCap for None
    gconstraints, \* constraints
    gpc,          \* where the call is
    gerror,       \* the exception the call raised
    gcombos,      \* the list `combinations`, the list returned in the end
    gdraws,       \* random mode: the samples drawn so far, counted up to
                  \* MaxDraws
    gfirst,       \* what the first of the two calls did
    gcall         \* 1 in the first call, 2 in the second

genVars == <<gspace, gmethod, gmaxevals, gconstraints, gpc, gerror, gcombos,
             gdraws, gfirst, gcall>>

\* A call of CustomEngine._calculate_param_importance taken alone
VARIABLES
    irows,      \* results: the rows of the successful runs
    ipc,        \* where the call is
    iout        \* the dict returned

impVars == <<irows, ipc, iout>>

\* Signals and orders as they are submitted
VARIABLES
    csignal,    \* the signal _process_signals handled last
    sreq,       \* the last call of StrategyBase.buy or sell
    sorders,    \* the pending orders of the strategy's position
    serror,     \* the exception that call raised
    climit      \* config.position_limit, in units of 1 / initial_capital

ordVars == <<csignal, sreq, sorders, serror, climit>>

\* The Position of a strategy (algame/strategy/base.py) and its orders
VARIABLES
    psize,      \* Position.size
    porders,    \* Position.orders: the pending orders
    ptrades,    \* Position.trades
    pgone,      \* the orders that have left Position.orders, as they are now
    plast       \* the last call made on the strategy or its position

posVars == <<psize, porders, ptrades, pgone, plast>>

\* An EngineRegistry
VARIABLES
    rengines,   \* the keys of _engines, in insertion order
    rdefault,   \* _default_engine
    rlast       \* the last call and the exception it raised

regVars == <<rengines, rdefault, rlast>>

vars == <<procVars, closeVars, engVars, genVars, impVars, ordVars, posVars,
          regVars>>

StrategyOutputs ==
    {[raised |-> TRUE, signals |-> <<>>]}
        \cup {[raised |-> FALSE, signals |-> l] : l \in SignalLists}

\* The processor's fields as the record the operators above work on
Proc == [position |-> position, equity |-> equity, trades |-> trades,
         escaped |-> FALSE]

\* AssetProcessor.__init__, on any series of at most MaxBars bars
ProcInit ==
    /\ closes \in UNION {[1..n -> Prices] : n \in 0..MaxBars}
    /\ pc = "start"
    /\ error = "none"
    /\ idx = 0
    /\ position = NoPosition
    /\ equity = <<InitialCapital>>
    /\ trades = <<>>
    /\ lastRaised = FALSE

\* No AssetProcessor is run
ProcIdle ==
    /\ closes = <<>>
    /\ pc = "idle"
    /\ error = "none"
    /\ idx = 0
    /\ position = NoPosition
    /\ equity = <<InitialCapital>>
    /\ trades = <<>>
    /\ lastRaised = FALSE

\* AssetProcessor.run, line 97: strategy.initialize(self.data); an
\* exception is logged and raised again
Initialize ==
    /\ pc = "start"
    /\ \E ok \in BOOLEAN :
          IF ok
          THEN pc' = "running" /\ error' = error
          ELSE pc' = "raised" /\ error' = "StrategyError"
    /\ UNCHANGED <<closes, idx, position, equity, trades, lastRaised>>
    /\ UNCHANGED <<closeVars, engVars, genVars, impVars, ordVars, posVars, regVars>>

\* AssetProcessor._process_bar on bar idx + 1, as called by the loop of run
ProcessBar ==
    /\ pc = "running"
    /\ idx < Len(closes)
    /\ \E out \in StrategyOutputs :
          LET time == idx + 1
              price == closes[time]
          IN \E s2 \in {StrategyStep(CheckStops(Proc, price, time),
                                     out, price, time)} :
                /\ idx' = time
                /\ lastRaised' = out.raised
                /\ position' = s2.position
                /\ trades' = s2.trades
                /\ IF s2.escaped
                   THEN /\ equity' = equity
                        /\ pc' = "raised"
                        /\ error' = "StrategyError"
                   ELSE IF EquityRaises(s2)
                        THEN /\ equity' = equity
                             /\ pc' = "raised"
                             /\ error' = "AttributeError"
                        ELSE /\ equity' = Append(equity, CalculateEquity(s2))
                             /\ pc' = pc
                             /\ error' = error
    /\ UNCHANGED closes
    /\ UNCHANGED <<closeVars, engVars, genVars, impVars, ordVars, posVars, regVars>>

\* AssetProcessor.run after the loop: close the open position at the last
\* close, then build the result; pd.Series(self.equity, index=self.data.index)
\* raises ValueError unless there is one value per bar
Finish ==
    /\ pc = "running"
    /\ idx = Len(closes)
    /\ LET s == IF position.present
                THEN ClosePosition(Proc, closes[Len(closes)], Len(closes))
                ELSE Proc
       IN /\ position' = s.position
          /\ trades' = s.trades
    /\ IF Len(equity) = Len(closes)
       THEN pc' = "returned" /\ error' = error
       ELSE pc' = "raised" /\ error' = "ValueError"
    /\ UNCHANGED <<closes, idx, equity, lastRaised>>
    /\ UNCHANGED <<closeVars, engVars, genVars, impVars, ordVars, posVars, regVars>>

ProcNext == Initialize \/ ProcessBar \/ Finish

\* ---------------------------------------- _close_position taken alone
\* The positions _open_long and _open_short can have built, before or after
\* an update
HeldPositions ==
    {NewPosition(z, e, t, sl, tp) :
        z \in Sizes, e \in Prices, t \in 1..MaxBars, sl \in Levels,
        tp \in Levels}
    \cup {PositionUpdate(NewPosition(z, e, t, sl, tp), c) :
        z \in Sizes, e \in Prices, t \in 1..MaxBars, sl \in Levels,
        tp \in Levels, c \in Prices}

CloseInit ==
    /\ cpos \in HeldPositions
    /\ ctrades = <<>>

CloseIdle ==
    /\ cpos = NoPosition
    /\ ctrades = <<>>

\* AssetProcessor._close_position(price, time), at any price and at any bar
\* from the entry on
CloseCall ==
    /\ \E price \in Prices, time \in 1..MaxBars :
          /\ cpos.present => time >= cpos.entry_time
          /\ \E s \in {ClosePosition([position |-> cpos, trades |-> ctrades],
                                     price, time)} :
                /\ cpos' = s.position
                /\ ctrades' = s.trades
    /\ UNCHANGED <<procVars, engVars, genVars, impVars, ordVars, posVars, regVars>>

\* ------------------------------- run_backtest and optimize_strategy
NoError == [kind |-> "none", of |-> 0]

WorkerError(k) == [kind |-> "worker", of |-> k]

\* pd.concat of an empty list, max of an empty list
ValueError == [kind |-> "ValueError", of |-> 0]

Tasks == 1..Len(outcome)

\* self._data.items(): the symbols of a dict, in insertion order
SupplyOrders ==
    {s \in UNION {[1..n -> Symbols] : n \in 0..MaxAssets} :
        \A i \in 1..Len(s), j \in 1..Len(s) : s[i] = s[j] => i = j}

\* What the worker of an asset does: p.run() raises, or returns the asset's
\* result, here one over all bars with MaxTrades trades
FullShapes ==
    {sh \in ResultShapes : sh.bars = Times /\ Len(sh.entries) = MaxTrades}

WorkerChoices ==
    {[raised |-> FALSE, shape |-> sh] : sh \in FullShapes}
        \cup {[raised |-> TRUE, shape |-> CHOOSE sh \in FullShapes : TRUE]}

\* What the worker of asset a hands back
EngineOutcome(a, c) ==
    IF c.raised THEN RunRaised ELSE AssetResult(a, c.shape)

\* What the worker of a parameter set hands back: self.run_backtest raises,
\* or returns a result whose metrics[metric] is value
JobOutcomes ==
    {RunRaised} \cup {[raised |-> FALSE, value |-> v] : v \in 0..MaxValue}

\* A task that opens no pool of its own, or whose pool has nothing left
NoInner == [queued |-> 0, running |-> 0]

EngIdle ==
    /\ call = "none"
    /\ inner = <<>>
    /\ supplied = <<>>
    /\ outcome = <<>>
    /\ wstate = <<>>
    /\ completed = <<>>
    /\ consumed = <<>>
    /\ results = <<>>
    /\ epc = "idle"
    /\ eerror = NoError
    /\ elog = <<>>
    /\ result = NoResult

\* run_backtest on any dict of assets, optimize_strategy on any list of
\* parameter sets, before the tasks are handed to the pool
EngineInit ==
    /\ \/ /\ call = "run_backtest"
          /\ supplied \in SupplyOrders
          /\ outcome \in
                {[k \in 1..Len(supplied) |-> EngineOutcome(supplied[k], c[k])] :
                    c \in [1..Len(supplied) -> WorkerChoices]}
       \/ /\ call = "optimize_strategy"
          /\ supplied = <<>>
          /\ outcome \in UNION {[1..n -> JobOutcomes] : n \in 0..MaxCombos}
    /\ inner = [k \in Tasks |-> NoInner]
    /\ wstate = [k \in Tasks |-> "new"]
    /\ completed = <<>>
    /\ consumed = <<>>
    /\ results = <<>>
    /\ epc = "start"
    /\ eerror = NoError
    /\ elog = <<>>
    /\ result = NoResult

\* executor.map(lambda p: p.run(), processors), lines 283-284, and the loop of
\* executor.submit, lines 310-317: every task is handed to the pool
Submit ==
    /\ epc = "start"
    /\ wstate' = [k \in Tasks |-> "queued"]
    /\ epc' = "mapping"
    /\ UNCHANGED <<call, supplied, outcome, inner, elog, completed, consumed, results,
                   eerror, result>>
    /\ UNCHANGED <<procVars, closeVars, genVars, impVars, ordVars, posVars, regVars>>

\* The pool starts the queued tasks in the order of submission, at most
\* max_workers at a time
StartWorker ==
    /\ \E k \in Tasks :
          /\ wstate[k] = "queued"
          /\ \A j \in 1..(k - 1) : wstate[j] # "queued"
          /\ Cardinality({j \in Tasks : wstate[j] = "running"}) < MaxWorkers
          /\ wstate' = [wstate EXCEPT ![k] = "running"]
    /\ UNCHANGED <<call, supplied, outcome, inner, elog, completed, consumed, results,
                   epc, eerror, result>>
    /\ UNCHANGED <<procVars, closeVars, genVars, impVars, ordVars, posVars, regVars>>

\* run_backtest in the worker of parameter set k, lines 283-284: its own
\* ProcessPoolExecutor(max_workers=self._workers) starts the next asset
\* task, at most max_workers at a time in that pool
StartAssetWorker ==
    /\ call = "optimize_strategy"
    /\ \E k \in Tasks :
          /\ wstate[k] = "running"
          /\ inner[k].queued > 0
          /\ inner[k].running < MaxWorkers
          /\ inner' = [inner EXCEPT ![k] = [queued |-> @.queued - 1,
                                            running |-> @.running + 1]]
    /\ UNCHANGED <<call, supplied, outcome, elog, wstate, completed, consumed,
                   results, epc, eerror, result>>
    /\ UNCHANGED <<procVars, closeVars, genVars, impVars, ordVars, posVars,
                   regVars>>

\* An asset task of the pool of parameter set k ends
CompleteAssetWorker ==
    /\ call = "optimize_strategy"
    /\ \E k \in Tasks :
          /\ wstate[k] = "running"
          /\ inner[k].running > 0
          /\ inner' = [inner EXCEPT ![k].running = @ - 1]
    /\ UNCHANGED <<call, supplied, outcome, elog, wstate, completed, consumed,
                   results, epc, eerror, result>>
    /\ UNCHANGED <<procVars, closeVars, genVars, impVars, ordVars, posVars,
                   regVars>>

\* A running task ends, in any order; the task of a parameter set ends once
\* the pool of its run_backtest has run every asset
CompleteWorker ==
    /\ \E k \in Tasks :
          /\ wstate[k] = "running"
          /\ inner[k] = NoInner
          /\ wstate' = [wstate EXCEPT ![k] = "done"]
          /\ completed' = Append(completed, k)
    /\ UNCHANGED <<call, supplied, outcome, inner, elog, consumed, results, epc, eerror,
                   result>>
    /\ UNCHANGED <<procVars, closeVars, genVars, impVars, ordVars, posVars, regVars>>

\* The task whose outcome the caller takes next: the iterator of
\* executor.map and the loop over futures both go in the order of submission
\* and wait for the task to be done
CollectableAsCompleted ==
    {k \in Tasks :
        wstate[k] = "done" /\ \A i \in 1..Len(consumed) : consumed[i] # k}

Collectable ==
    {k \in Tasks : k = Len(consumed) + 1 /\ wstate[k] = "done"}

\* list(executor.map(...)) taking the outcome o of the next task: a result
\* goes to the list, an exception of the worker is raised in the caller
MapCollectSkipping(rs, o) ==
    IF o.raised
    THEN [raised |-> FALSE, results |-> rs]
    ELSE [raised |-> FALSE, results |-> Append(rs, o)]

MapCollect(rs, o) ==
    IF o.raised
    THEN [raised |-> TRUE, results |-> rs]
    ELSE [raised |-> FALSE, results |-> Append(rs, o)]

\* run_backtest, line 284: the next result of executor.map.  On an exception
\* the iterator cancels the tasks not yet started and the with block is left.
MapNext ==
    /\ call = "run_backtest"
    /\ epc = "mapping"
    /\ \E k \in Collectable :
          \E c \in {MapCollect(results, outcome[k])} :
             /\ consumed' = Append(consumed, k)
             /\ results' = c.results
             /\ IF c.raised
                THEN /\ epc' = "unwinding"
                     /\ eerror' = WorkerError(k)
                     /\ wstate' = [j \in Tasks |->
                                      IF wstate[j] = "queued"
                                      THEN "cancelled"
                                      ELSE wstate[j]]
                ELSE UNCHANGED <<epc, eerror, wstate>>
    /\ UNCHANGED <<call, supplied, outcome, inner, elog, completed, result>>
    /\ UNCHANGED <<procVars, closeVars, genVars, impVars, ordVars, posVars, regVars>>

\* Leaving the with block on an exception: executor.shutdown(wait=True) waits
\* for the running tasks, then the exception reaches the caller of
\* run_backtest
ExitPool ==
    /\ epc = "unwinding"
    /\ \A k \in Tasks : wstate[k] # "running"
    /\ epc' = "raised"
    /\ UNCHANGED <<call, supplied, outcome, inner, elog, wstate, completed, consumed,
                   results, eerror, result>>
    /\ UNCHANGED <<procVars, closeVars, genVars, impVars, ordVars, posVars, regVars>>

\* run_backtest, lines 287-289: self._combine_results(results) once every
\* result is in the list; pd.concat raises ValueError on an empty list
CombineStep ==
    /\ call \in {"run_backtest", "_combine_results"}
    /\ epc = "mapping"
    /\ Len(consumed) = Len(outcome)
    /\ IF results = <<>>
       THEN epc' = "raised" /\ eerror' = ValueError /\ result' = result
       ELSE /\ epc' = "returned"
            /\ eerror' = eerror
            /\ result' = CombineResults(results)
    /\ UNCHANGED <<call, supplied, outcome, inner, elog, wstate, completed, consumed,
                   results>>
    /\ UNCHANGED <<procVars, closeVars, genVars, impVars, ordVars, posVars, regVars>>

\* optimize_strategy, lines 321-329: future.result() of parameter set k; a
\* result adds a row, an exception is logged and the parameter set left out
TryCollectKeepingFailed(rs, k, o) ==
    Append(rs, [parameters |-> k,
                value |-> IF o.raised THEN MaxValue ELSE o.value])

TryCollect(rs, k, o) ==
    IF o.raised
    THEN rs
    ELSE Append(rs, [parameters |-> k, value |-> o.value])

\* logger.error of line 329: the parameter set of a failed evaluation
TryLog(log, k, o) == IF o.raised THEN Append(log, k) ELSE log

FutureResult ==
    /\ call = "optimize_strategy"
    /\ epc = "mapping"
    /\ \E k \in Collectable :
          /\ consumed' = Append(consumed, k)
          /\ results' = TryCollect(results, k, outcome[k])
          /\ elog' = TryLog(elog, k, outcome[k])
    /\ UNCHANGED <<call, supplied, outcome, inner, wstate, completed, epc, eerror,
                   result>>
    /\ UNCHANGED <<procVars, closeVars, genVars, impVars, ordVars, posVars, regVars>>

\* max(results, key=lambda x: x['value']): the first row of greatest value
BestLast(rs) ==
    rs[CHOOSE i \in 1..Len(rs) :
          /\ \A j \in 1..Len(rs) : rs[j].value <= rs[i].value
          /\ \A j \in (i + 1)..Len(rs) : rs[j].value < rs[i].value]

Best(rs) ==
    rs[CHOOSE i \in 1..Len(rs) :
          /\ \A j \in 1..Len(rs) : rs[j].value <= rs[i].value
          /\ \A j \in 1..(i - 1) : rs[j].value < rs[i].value]

\* best = max(results, ...), line 332: max raises ValueError on an empty
\* list
MaxByValueDefaulting(rs) ==
    [raised |-> FALSE,
     parameters |-> IF rs = <<>> THEN 0 ELSE Best(rs).parameters]

MaxByValue(rs) ==
    IF rs = <<>>
    THEN [raised |-> TRUE, parameters |-> 0]
    ELSE [raised |-> FALSE, parameters |-> Best(rs).parameters]

\* optimize_strategy, lines 331-340, after the with block: the
\* OptimizationResult
FindBest ==
    /\ call = "optimize_strategy"
    /\ epc = "mapping"
    /\ Len(consumed) = Len(outcome)
    /\ \E best \in {MaxByValue(results)} :
          IF best.raised
          THEN epc' = "raised" /\ eerror' = ValueError /\ result' = result
          ELSE /\ epc' = "returned"
               /\ eerror' = eerror
               /\ result' = [best_params |-> best.parameters,
                             all_results |-> results,
                             optimization_path |-> results]
    /\ UNCHANGED <<call, supplied, outcome, inner, elog, wstate, completed, consumed,
                   results>>
    /\ UNCHANGED <<procVars, closeVars, genVars, impVars, ordVars, posVars, regVars>>

EngineNext ==
    \/ Submit
    \/ StartWorker
    \/ CompleteWorker
    \/ MapNext
    \/ ExitPool
    \/ CombineStep
    \/ FutureResult
    \/ FindBest

\* optimize_strategy on any list of parameter sets, with any assets in
\* self._data: the run_backtest of each parameter set has one task per asset
PoolInit ==
    /\ call = "optimize_strategy"
    /\ supplied \in SupplyOrders
    /\ outcome \in UNION {[1..n -> JobOutcomes] : n \in 0..MaxCombos}
    /\ inner = [k \in Tasks |-> [queued |-> Len(supplied), running |-> 0]]
    /\ wstate = [k \in Tasks |-> "new"]
    /\ completed = <<>>
    /\ consumed = <<>>
    /\ results = <<>>
    /\ epc = "start"
    /\ eerror = NoError
    /\ elog = <<>>
    /\ result = NoResult

PoolNext ==
    \/ Submit
    \/ StartWorker
    \/ StartAssetWorker
    \/ CompleteAssetWorker
    \/ CompleteWorker
    \/ FutureResult
    \/ FindBest

\* _combine_results called on the results of any assets, in any order of
\* supply
CombineInit ==
    /\ call = "_combine_results"
    /\ supplied \in SupplyOrders
    /\ outcome \in
          {[k \in 1..Len(supplied) |-> AssetResult(supplied[k], sh[k])] :
              sh \in [1..Len(supplied) -> ResultShapes]}
    /\ inner = [k \in Tasks |-> NoInner]
    /\ wstate = [k \in Tasks |-> "done"]
    /\ completed = [k \in Tasks |-> k]
    /\ consumed = [k \in Tasks |-> k]
    /\ results = outcome
    /\ epc = "mapping"
    /\ eerror = NoError
    /\ elog = <<>>
    /\ result = NoResult

\* ------------------------------------------- parameter sets, orders
NoCap == 0

NoCall == [pc |-> "none", combos |-> <<>>]

GenIdle ==
    /\ gspace = <<>>
    /\ gmethod = "none"
    /\ gmaxevals = NoCap
    /\ gconstraints = <<>>
    /\ gpc = "idle"
    /\ gerror = "none"
    /\ gcombos = <<>>
    /\ gdraws = 0
    /\ gfirst = NoCall
    /\ gcall = 1

ImpIdle ==
    /\ irows = <<>>
    /\ ipc = "idle"
    /\ iout = <<>>

NoSignal == [action |-> "none"]

NoRequest == [impl |-> "none", type |-> "none", size |-> 1]

\* position_limit: float = 1.0, the whole of the capital
DefaultLimit == InitialCapital

\* No signal handled and no order placed yet
OrdersIdle ==
    /\ csignal = NoSignal
    /\ sreq = NoRequest
    /\ sorders = <<>>
    /\ serror = "none"

OrdIdle ==
    /\ OrdersIdle
    /\ climit = DefaultLimit

NoOp == [op |-> "none"]

\* Position.__init__ of algame/strategy/base.py
PosIdle ==
    /\ psize = 0
    /\ porders = <<>>
    /\ ptrades = <<>>
    /\ pgone = <<>>
    /\ plast = NoOp

\* _default_engine = None
NoEngine == 0

\* EngineRegistry.__init__
RegIdle ==
    /\ rengines = <<>>
    /\ rdefault = NoEngine
    /\ rlast = NoOp

RestIdle == GenIdle /\ ImpIdle /\ OrdIdle /\ PosIdle /\ RegIdle

\* ------------------------------------------- _generate_param_combos
\* len(combinations) < (max_evals or 100)
DefaultEvals == 100

ParamValues == 1..MaxParamValue

\* The list of values declared for one parameter
ValueLists == UNION {[1..n -> ParamValues] : n \in 0..MaxValues}

\* parameter_space: parameter i is the i-th key of the dict
Spaces == UNION {[1..k -> ValueLists] : k \in 0..MaxParams}

\* constraint['left'], constraint['right']: the name of a parameter (here its
\* place among the keys) or a number
Operands ==
    {[kind |-> "name", at |-> i] : i \in 1..MaxParams}
        \cup {[kind |-> "literal", at |-> v] : v \in ParamValues}

Operators == {">", "<", ">=", "<=", "=="}

\* an operator _check_constraint does not know
OtherOperators == {"!="}

Constraints ==
    [left : Operands, operator : Operators \cup OtherOperators,
     right : Operands]

ConstraintLists == UNION {[1..n -> Constraints] : n \in 0..MaxConstraints}

Methods == {"grid", "random", "bayesian"}

\* _evaluate_expression: float(expr) of a number, float(params[expr]) of a
\* name, KeyError when params has no such key.  float() is exact on the
\* integers of ParamValues.
EvaluateExpression(expr, params) ==
    IF expr.kind = "literal"
    THEN [error |-> "none", v |-> expr.at]
    ELSE IF expr.at \in DOMAIN params
         THEN [error |-> "none", v |-> params[expr.at]]
         ELSE [error |-> "KeyError", v |-> 0]

\* The comparison of _check_constraint, lines 438-449
CompareWeak(operator, left, right) ==
    IF operator = ">" THEN left >= right
    ELSE IF operator = "<" THEN left <= right
    ELSE IF operator = ">=" THEN left >= right
    ELSE IF operator = "<=" THEN left <= right
    ELSE left = right

Compare(operator, left, right) ==
    IF operator = ">" THEN left > right
    ELSE IF operator = "<" THEN left < right
    ELSE IF operator = ">=" THEN left >= right
    ELSE IF operator = "<=" THEN left <= right
    ELSE left = right

\* _check_constraint: both operands are evaluated, then the operator is
\* looked up; an unknown operator raises ValueError
CheckConstraint(params, c) ==
    LET left == EvaluateExpression(c.left, params)
        right == EvaluateExpression(c.right, params)
    IN IF left.error # "none"
       THEN [error |-> left.error, holds |-> FALSE]
       ELSE IF right.error # "none"
            THEN [error |-> right.error, holds |-> FALSE]
            ELSE IF c.operator \in Operators
                 THEN [error |-> "none",
                       holds |-> Compare(c.operator, left.v, right.v)]
                 ELSE [error |-> "ValueError", holds |-> FALSE]

\* all(self._check_constraint(params, c) for c in constraints): stops at the
\* first constraint that fails or raises
RECURSIVE CheckAll(_, _)
CheckAll(params, cs) ==
    IF cs = <<>>
    THEN [error |-> "none", holds |-> TRUE]
    ELSE LET r == CheckConstraint(params, cs[1])
         IN IF r.error # "none" \/ ~r.holds
            THEN r
            ELSE CheckAll(params, Tail(cs))

\* itertools.product(*values): the rightmost parameter varies fastest
RECURSIVE ProductFrom(_, _)
ProductFrom(head, rest) ==
    IF head = <<>>
    THEN <<>>
    ELSE [i \in 1..Len(rest) |-> <<head[1]>> \o rest[i]]
            \o ProductFrom(Tail(head), rest)

RECURSIVE Product(_)
Product(values) ==
    IF values = <<>>
    THEN << <<>> >>
    ELSE ProductFrom(values[1], Product(Tail(values)))

\* list(itertools.product(*values)), line 399
GridCombosTruncated(space) ==
    SubSeq(Product(space), 1, Len(Product(space)) - 1)

GridCombos(space) == Product(space)

\* The list comprehension of lines 403-407: the combinations that satisfy
\* the constraints, in order; an exception of a check ends it
RECURSIVE FilterCombos(_, _)
FilterCombos(combos, cs) ==
    IF combos = <<>>
    THEN [error |-> "none", combos |-> <<>>]
    ELSE LET r == CheckAll(combos[1], cs)
         IN IF r.error # "none"
            THEN [error |-> r.error, combos |-> <<>>]
            ELSE LET rest == FilterCombos(Tail(combos), cs)
                 IN IF rest.error # "none"
                    THEN rest
                    ELSE [error |-> "none",
                          combos |-> IF r.holds
                                     THEN <<combos[1]>> \o rest.combos
                                     ELSE rest.combos]

\* random.sample(combinations, m): m elements at distinct places of the
\* list, in any order; the generator is not seeded
Samples(combos, m) ==
    {[i \in 1..m |-> combos[f[i]]] :
        f \in {g \in [1..m -> 1..Len(combos)] :
                  \A i \in 1..m, j \in 1..m : g[i] = g[j] => i = j}}

\* _generate_param_combos called with any arguments
GenInit ==
    /\ gspace \in Spaces
    /\ gmethod \in Methods
    /\ gmaxevals \in {NoCap} \cup (1..MaxEvals)
    /\ gconstraints \in ConstraintLists
    /\ gpc = "start"
    /\ gerror = "none"
    /\ gcombos = <<>>
    /\ gdraws = 0
    /\ gfirst = NoCall
    /\ gcall = 1

\* The grid branch, lines 394-414
Grid ==
    /\ gpc = "start"
    /\ gmethod = "grid"
    /\ \E filtered \in {IF gconstraints # <<>>
                        THEN FilterCombos(GridCombos(gspace), gconstraints)
                        ELSE [error |-> "none",
                              combos |-> GridCombos(gspace)]} :
          IF filtered.error # "none"
          THEN /\ gpc' = "raised"
               /\ gerror' = filtered.error
               /\ gcombos' = gcombos
          ELSE /\ gpc' = "returned"
               /\ gerror' = gerror
               /\ IF gmaxevals # NoCap /\ Len(filtered.combos) > gmaxevals
                  THEN gcombos' \in Samples(filtered.combos, gmaxevals)
                  ELSE gcombos' = filtered.combos
    /\ UNCHANGED <<gspace, gmethod, gmaxevals, gconstraints, gdraws, gfirst,
                   gcall>>
    /\ UNCHANGED <<procVars, closeVars, engVars, impVars, ordVars, posVars, regVars>>

\* The number of parameter sets the random branch collects
Target == IF gmaxevals = NoCap THEN DefaultEvals ELSE gmaxevals

\* The condition of the while loop, line 420
LoopGoesOnCountingDraws == gdraws < Target

LoopGoesOn == Len(gcombos) < Target

\* One turn of the while loop of the random branch, lines 420-426: a value
\* of each parameter is drawn with random.choice (IndexError on an empty
\* list) and the sample is kept when it satisfies the constraints.  The
\* loop is followed until MaxDraws samples are kept.
Draw ==
    /\ gpc \in {"start", "drawing"}
    /\ gmethod = "random"
    /\ LoopGoesOn
    /\ Len(gcombos) < MaxDraws
    /\ IF \E i \in 1..Len(gspace) : gspace[i] = <<>>
       THEN /\ gpc' = "raised"
            /\ gerror' = "IndexError"
            /\ UNCHANGED <<gcombos, gdraws>>
       ELSE \E at \in [1..Len(gspace) -> 1..MaxValues] :
               /\ \A i \in 1..Len(gspace) : at[i] <= Len(gspace[i])
               /\ LET combo == [i \in 1..Len(gspace) |-> gspace[i][at[i]]]
                      r == IF gconstraints = <<>>
                           THEN [error |-> "none", holds |-> TRUE]
                           ELSE CheckAll(combo, gconstraints)
                  IN /\ gdraws' = IF gdraws < MaxDraws THEN gdraws + 1
                                ELSE gdraws
                     /\ IF r.error # "none"
                        THEN /\ gpc' = "raised"
                             /\ gerror' = r.error
                             /\ gcombos' = gcombos
                        ELSE /\ gpc' = "drawing"
                             /\ gerror' = gerror
                             /\ gcombos' = IF r.holds
                                           THEN Append(gcombos, combo)
                                           ELSE gcombos
    /\ UNCHANGED <<gspace, gmethod, gmaxevals, gconstraints, gfirst, gcall>>
    /\ UNCHANGED <<procVars, closeVars, engVars, impVars, ordVars, posVars, regVars>>

\* The while loop ends, line 427
ReturnRandom ==
    /\ gpc \in {"start", "drawing"}
    /\ gmethod = "random"
    /\ ~LoopGoesOn
    /\ gpc' = "returned"
    /\ UNCHANGED <<gspace, gmethod, gmaxevals, gconstraints, gerror, gcombos,
                   gdraws, gfirst, gcall>>
    /\ UNCHANGED <<procVars, closeVars, engVars, impVars, ordVars, posVars, regVars>>

\* Any other method, lines 429-430
Unsupported ==
    /\ gpc = "start"
    /\ gmethod \notin {"grid", "random"}
    /\ gpc' = "raised"
    /\ gerror' = "ValueError"
    /\ UNCHANGED <<gspace, gmethod, gmaxevals, gconstraints, gcombos, gdraws,
                   gfirst, gcall>>
    /\ UNCHANGED <<procVars, closeVars, engVars, impVars, ordVars, posVars, regVars>>

\* The caller calls again with the same arguments
CallAgain ==
    /\ gpc \in {"returned", "raised"}
    /\ gcall = 1
    /\ gfirst' = [pc |-> gpc, combos |-> gcombos]
    /\ gcall' = 2
    /\ gpc' = "start"
    /\ gerror' = "none"
    /\ gcombos' = <<>>
    /\ gdraws' = 0
    /\ UNCHANGED <<gspace, gmethod, gmaxevals, gconstraints>>
    /\ UNCHANGED <<procVars, closeVars, engVars, impVars, ordVars, posVars, regVars>>

GenNext == Grid \/ Draw \/ ReturnRandom \/ Unsupported \/ CallAgain

\* ---------------------------------------- _calculate_param_importance
RECURSIVE SumSeq(_)
SumSeq(xs) == IF xs = <<>> THEN 0 ELSE xs[1] + SumSeq(Tail(xs))

\* df[param].corr(df['value']), the Pearson correlation of two columns, by
\* what abs() and the sum make of it: NaN with fewer than two rows or a
\* column without variance, else zero or not, after the sign of the
\* covariance (n * Sxy - Sx * Sy; the columns hold small integers, on which
\* the sums are exact)
Correlation(xs, ys) ==
    LET n == Len(xs)
        cov == n * SumSeq([i \in 1..n |-> xs[i] * ys[i]])
                  - SumSeq(xs) * SumSeq(ys)
        varx == n * SumSeq([i \in 1..n |-> xs[i] * xs[i]])
                  - SumSeq(xs) * SumSeq(xs)
        vary == n * SumSeq([i \in 1..n |-> ys[i] * ys[i]])
                  - SumSeq(ys) * SumSeq(ys)
    IN IF n < 2 \/ varx = 0 \/ vary = 0
       THEN "nan"
       ELSE IF cov = 0 THEN "zero" ELSE "nonzero"

\* total > 0, line 478, total being the sum of the abs(correlation): false
\* when one of them is NaN, and when all are zero or there is none
TotalPositive(importance) ==
    /\ \A p \in DOMAIN importance : importance[p] # "nan"
    /\ \E p \in DOMAIN importance : importance[p] = "nonzero"

\* _calculate_param_importance: normalized tells whether the values were
\* divided by their total and multiplied by 100 (they are then shares of
\* 100); otherwise values holds the abs(correlation) as computed
ParamImportance(rows) ==
    IF rows = <<>>
    THEN [normalized |-> FALSE, values |-> <<>>]
    ELSE LET importance ==
                [p \in DOMAIN rows[1].parameters |->
                    Correlation([i \in 1..Len(rows) |-> rows[i].parameters[p]],
                                [i \in 1..Len(rows) |-> rows[i].value])]
         IN [normalized |-> TotalPositive(importance), values |-> importance]

\* Rows of results: the parameter set, a value for each of its one or more
\* parameters, and the value of the metric
ImportanceRows ==
    UNION {UNION {[1..n -> [parameters : [1..k -> ParamValues],
                            value : 0..MaxValue]] : n \in 0..MaxCombos} :
           k \in 1..MaxParams}

ImpInit ==
    /\ irows \in ImportanceRows
    /\ ipc = "start"
    /\ iout = <<>>

ImpCall ==
    /\ ipc = "start"
    /\ ipc' = "returned"
    /\ iout' = ParamImportance(irows)
    /\ UNCHANGED irows
    /\ UNCHANGED <<procVars, closeVars, engVars, genVars, ordVars, posVars, regVars>>

\* -------------------- _process_signals and StrategyBase.buy / sell
\* AssetProcessor._process_signals is handed one signal, whatever position
\* the processor holds
\* The values of config.position_limit: the default, and limits so low that
\* initial_capital * position_limit is a few units of currency
PositionLimits == 1..MaxLimit \cup {DefaultLimit}

SignalInit ==
    /\ cpos \in HeldPositions \cup {NoPosition}
    /\ ctrades = <<>>
    /\ climit \in PositionLimits

\* AssetProcessor._process_signals([signal], current_bar), at any price and
\* at any bar from the entry of the position on
SignalCall ==
    /\ csignal = NoSignal
    /\ sreq = NoRequest
    /\ \E signal \in Signals, price \in Prices, time \in 1..MaxBars :
          /\ cpos.present => time >= cpos.entry_time
          /\ \E s \in {ApplySignal([position |-> cpos, trades |-> ctrades],
                                   signal, price, time)} :
                /\ cpos' = s.position
                /\ ctrades' = s.trades
                /\ csignal' = [action |-> signal.action, signal |-> signal,
                               price |-> price, time |-> time]
    /\ UNCHANGED <<sreq, sorders, serror, climit>>
    /\ UNCHANGED <<procVars, engVars, genVars, impVars, posVars, regVars>>

\* The calls of buy and sell: the size given, or none (given is FALSE) for
\* the default
Requests ==
    [impl : {"algame/strategy/base.py", "src/algame/strategy/base.py"},
     type : {"buy", "sell"}, size : Sizes, given : BOOLEAN]

\* size=None, and the default size: float = 1.0
DefaultSize == 1

SizeOf(req) == IF req.given THEN req.size ELSE DefaultSize

\* StrategyBase.buy and StrategyBase.sell of algame/strategy/base.py:
\* ValueError for a size given that is not positive, else the order joins
\* the pending orders of the position
Buy ==
    /\ csignal = NoSignal
    /\ Len(sorders) < MaxOrders
    /\ \E req \in Requests :
          /\ req.impl = "algame/strategy/base.py"
          /\ sreq' = req
          /\ IF req.given /\ req.size <= 0
             THEN serror' = "ValueError" /\ sorders' = sorders
             ELSE /\ serror' = "none"
                  /\ sorders' = Append(sorders,
                                       [type |-> req.type,
                                        size |-> SizeOf(req),
                                        status |-> "pending"])
    /\ UNCHANGED <<csignal, climit>>
    /\ UNCHANGED <<procVars, closeVars, engVars, genVars, impVars, posVars, regVars>>

\* StrategyBase.buy and StrategyBase.sell of src/algame/strategy/base.py:
\* the order joins the pending orders, whatever its size
BuyState ==
    /\ csignal = NoSignal
    /\ Len(sorders) < MaxOrders
    /\ \E req \in Requests :
          /\ req.impl = "src/algame/strategy/base.py"
          /\ sreq' = req
          /\ serror' = "none"
          /\ sorders' = Append(sorders,
                               [type |-> req.type, size |-> SizeOf(req),
                                status |-> "pending"])
    /\ UNCHANGED <<csignal, climit>>
    /\ UNCHANGED <<procVars, closeVars, engVars, genVars, impVars, posVars, regVars>>

SignalsNext == SignalCall \/ Buy \/ BuyState

\* ------------------ Position and Order of algame/strategy/base.py
\* Order.__init__: limit and stop are prices or None (NoLevel, the code tests
\* them by truthiness); sl and tp are stored and never read
NewOrder(type, size, limit, stop) ==
    [type |-> type, size |-> size, limit |-> limit, stop |-> stop,
     status |-> "pending"]

\* Order.is_triggered
IsTriggered(o, price) ==
    IF o.status # "pending"
    THEN FALSE
    ELSE IF o.type = "buy"
         THEN \/ o.stop # NoLevel /\ price >= o.stop
              \/ o.limit # NoLevel /\ price <= o.limit
         ELSE \/ o.stop # NoLevel /\ price <= o.stop
              \/ o.limit # NoLevel /\ price >= o.limit

\* The fields of a Position are handled as one record
\* [size, orders, trades, gone].

\* Position._process_order: the size moves by the size of the order and a
\* Trade is appended (its entry_time is the wall clock, left out)
ProcessOrder(p, o, price) ==
    [p EXCEPT !.size = IF o.type = "buy" THEN p.size + o.size
                       ELSE p.size - o.size,
              !.trades = Append(p.trades,
                                [type |-> o.type, size |-> o.size,
                                 entry_price |-> price])]

\* list.remove: the first element equal to o leaves the list
RECURSIVE RemoveFirst(_, _)
RemoveFirst(orders, o) ==
    IF orders = <<>>
    THEN <<>>
    ELSE IF Head(orders) = o
         THEN Tail(orders)
         ELSE <<Head(orders)>> \o RemoveFirst(Tail(orders), o)

\* The loop of Position.update over the copy self.orders[:]
RECURSIVE UpdateOver(_, _, _)
UpdateOver(p, snapshot, price) ==
    IF snapshot = <<>>
    THEN p
    ELSE LET o == Head(snapshot)
             q == IF IsTriggered(o, price)
                  THEN [ProcessOrder(p, o, price) EXCEPT
                           !.orders = RemoveFirst(p.orders, o),
                           !.gone = Append(p.gone, o)]
                  ELSE p
         IN UpdateOver(q, Tail(snapshot), price)

\* Position.update
PositionUpdateOrders(p, price) == UpdateOver(p, p.orders, price)

StrategyPosition ==
    [size |-> psize, orders |-> porders, trades |-> ptrades, gone |-> pgone]

\* StrategyBase.buy and StrategyBase.sell with a limit and a stop: ValueError
\* for a size given that is not positive, else the order joins Position.orders
PlaceOrder ==
    /\ Len(porders) + Len(pgone) < MaxOrders
    /\ \E type \in {"buy", "sell"}, size \in Sizes, given \in BOOLEAN,
          limit \in Levels, stop \in Levels :
          IF given /\ size <= 0
          THEN /\ plast' = [op |-> type, price |-> NoLevel,
                            error |-> "ValueError"]
               /\ porders' = porders
          ELSE /\ plast' = [op |-> type, price |-> NoLevel, error |-> "none"]
               /\ porders' = Append(porders,
                                    NewOrder(type,
                                             IF given THEN size
                                             ELSE DefaultSize,
                                             limit, stop))
    /\ UNCHANGED <<psize, ptrades, pgone>>
    /\ UNCHANGED <<procVars, closeVars, engVars, genVars, impVars, ordVars,
                   regVars>>

\* StrategyBase.close: nothing without a position, else an order of the
\* opposite side for the whole size
CloseOrder ==
    /\ Len(porders) + Len(pgone) < MaxOrders
    /\ plast' = [op |-> "close", price |-> NoLevel, error |-> "none"]
    /\ IF psize = 0
       THEN porders' = porders
       ELSE \E limit \in Levels, stop \in Levels :
               porders' = Append(porders,
                                 NewOrder(IF psize > 0 THEN "sell" ELSE "buy",
                                          Abs(psize), limit, stop))
    /\ UNCHANGED <<psize, ptrades, pgone>>
    /\ UNCHANGED <<procVars, closeVars, engVars, genVars, impVars, ordVars,
                   regVars>>

\* Position.update(price), at any price
Update ==
    /\ \E price \in Prices :
          /\ plast' = [op |-> "update", price |-> price, error |-> "none"]
          /\ \E q \in {PositionUpdateOrders(StrategyPosition, price)} :
                /\ psize' = q.size
                /\ porders' = q.orders
                /\ ptrades' = q.trades
                /\ pgone' = q.gone
    /\ UNCHANGED <<procVars, closeVars, engVars, genVars, impVars, ordVars,
                   regVars>>

\* StrategyBase.cancel_orders, Position.cancel_orders: self.orders = []
CancelOrders ==
    /\ plast' = [op |-> "cancel_orders", price |-> NoLevel, error |-> "none"]
    /\ porders' = <<>>
    /\ pgone' = pgone \o porders
    /\ UNCHANGED <<psize, ptrades>>
    /\ UNCHANGED <<procVars, closeVars, engVars, genVars, impVars, ordVars,
                   regVars>>

PosNext == PlaceOrder \/ CloseOrder \/ Update \/ CancelOrders

\* ------------------------------------------------------ EngineRegistry
\* The names engines are registered under
EngineNames == 1..MaxEngines

\* name in self._engines
IsRegistered(engines, name) == \E i \in 1..Len(engines) : engines[i] = name

\* del self._engines[name]: the other keys keep their order
WithoutEngine(engines, name) == SelectSeq(engines, LAMBDA n : n # name)

\* The registry is handled as the record [engines, default, error], error
\* being the exception of the last call.

\* EngineRegistry.register
RegisterEngine(r, name, is_engine, make_default) ==
    IF ~is_engine
    THEN [r EXCEPT !.error = "TypeError"]
    ELSE IF IsRegistered(r.engines, name)
         THEN [r EXCEPT !.error = "ValueError"]
         ELSE [engines |-> Append(r.engines, name),
               default |-> IF make_default \/ r.default = NoEngine
                           THEN name
                           ELSE r.default,
               error |-> "none"]

\* EngineRegistry.unregister: when the default goes, the first key left
\* becomes the default, None when none is left
UnregisterEngineKeepingDefault(r, name) ==
    IF ~IsRegistered(r.engines, name)
    THEN [r EXCEPT !.error = "KeyError"]
    ELSE [engines |-> WithoutEngine(r.engines, name),
          default |-> r.default,
          error |-> "none"]

UnregisterEngine(r, name) ==
    IF ~IsRegistered(r.engines, name)
    THEN [r EXCEPT !.error = "KeyError"]
    ELSE LET left == WithoutEngine(r.engines, name)
         IN [engines |-> left,
             default |-> IF name = r.default
                         THEN IF left # <<>> THEN left[1] ELSE NoEngine
                         ELSE r.default,
             error |-> "none"]

\* EngineRegistry.set_default_engine
SetDefault(r, name) ==
    IF ~IsRegistered(r.engines, name)
    THEN [r EXCEPT !.error = "KeyError"]
    ELSE [r EXCEPT !.default = name, !.error = "none"]

Registry == [engines |-> rengines, default |-> rdefault, error |-> "none"]

\* registry.register(name, engine_class, make_default), engine_class being
\* an engine class or not
Register ==
    /\ \E name \in EngineNames, is_engine \in BOOLEAN, make_default \in BOOLEAN :
          \E r \in {RegisterEngine(Registry, name, is_engine, make_default)} :
             /\ rengines' = r.engines
             /\ rdefault' = r.default
             /\ rlast' = [op |-> "register", name |-> name,
                          error |-> r.error]
    /\ UNCHANGED <<procVars, closeVars, engVars, genVars, impVars, ordVars,
                   posVars>>

\* registry.unregister(name)
Unregister ==
    /\ \E name \in EngineNames :
          \E r \in {UnregisterEngine(Registry, name)} :
             /\ rengines' = r.engines
             /\ rdefault' = r.default
             /\ rlast' = [op |-> "unregister", name |-> name,
                          error |-> r.error]
    /\ UNCHANGED <<procVars, closeVars, engVars, genVars, impVars, ordVars,
                   posVars>>

\* registry.set_default_engine(name)
SetDefaultEngine ==
    /\ \E name \in EngineNames :
          \E r \in {SetDefault(Registry, name)} :
             /\ rengines' = r.engines
             /\ rdefault' = r.default
             /\ rlast' = [op |-> "set_default_engine", name |-> name,
                          error |-> r.error]
    /\ UNCHANGED <<procVars, closeVars, engVars, genVars, impVars, ordVars,
                   posVars>>

\* registry.clear()
Clear ==
    /\ rengines' = <<>>
    /\ rdefault' = NoEngine
    /\ rlast' = [op |-> "clear", name |-> NoEngine, error |-> "none"]
    /\ UNCHANGED <<procVars, closeVars, engVars, genVars, impVars, ordVars,
                   posVars>>

RegistryNext == Register \/ Unregister \/ SetDefaultEngine \/ Clear

\* ------------------------------------------------------ specifications
Init == ProcInit /\ CloseIdle /\ EngIdle /\ RestIdle

Next == ProcNext

\* One AssetProcessor.run, on any data and any strategy
Spec == Init /\ [][Next]_vars

CloseSpecInit == ProcIdle /\ CloseInit /\ EngIdle /\ RestIdle

CloseSpecNext == CloseCall

\* AssetProcessor._close_position on any position, at any price
SpecClose == CloseSpecInit /\ [][CloseSpecNext]_vars

EngineSpecInit == ProcIdle /\ CloseIdle /\ EngineInit /\ RestIdle

EngineSpecNext == EngineNext

\* One call of run_backtest or of optimize_strategy, with workers that end
\* in any order
SpecEngine == EngineSpecInit /\ [][EngineSpecNext]_vars

CombineSpecInit == ProcIdle /\ CloseIdle /\ CombineInit /\ RestIdle

CombineSpecNext == CombineStep

PoolSpecInit == ProcIdle /\ CloseIdle /\ PoolInit /\ RestIdle

\* One call of optimize_strategy, with the pools its workers open
SpecPool == PoolSpecInit /\ [][PoolNext]_vars

\* _combine_results on any list of asset results
SpecCombine == CombineSpecInit /\ [][CombineSpecNext]_vars

ParamsSpecInit ==
    /\ ProcIdle /\ CloseIdle /\ EngIdle /\ GenInit /\ ImpIdle /\ OrdIdle
    /\ PosIdle /\ RegIdle

ParamsSpecNext == GenNext

SignalsSpecInit ==
    /\ ProcIdle /\ SignalInit /\ EngIdle /\ GenIdle /\ ImpIdle /\ OrdersIdle
    /\ PosIdle /\ RegIdle

SignalsSpecNext == SignalsNext

\* One signal handed to AssetProcessor._process_signals, or orders handed to
\* StrategyBase.buy and sell
SpecSignals == SignalsSpecInit /\ [][SignalsSpecNext]_vars

ImportanceSpecInit ==
    /\ ProcIdle /\ CloseIdle /\ EngIdle /\ GenIdle /\ ImpInit /\ OrdIdle
    /\ PosIdle /\ RegIdle

ImportanceSpecNext == ImpCall

\* _calculate_param_importance on any rows
SpecImportance == ImportanceSpecInit /\ [][ImportanceSpecNext]_vars

OrdersSpecInit == ProcIdle /\ CloseIdle /\ EngIdle /\ RestIdle

\* Orders placed on a strategy, and its Position updated with prices
SpecOrders == OrdersSpecInit /\ [][PosNext]_vars

RegistrySpecInit == ProcIdle /\ CloseIdle /\ EngIdle /\ RestIdle

\* Any calls on a new EngineRegistry
SpecRegistry == RegistrySpecInit /\ [][RegistryNext]_vars

RandomSpecInit == ParamsSpecInit /\ gmethod = "random"

RandomNext == Draw \/ ReturnRandom

\* The random branch of _generate_param_combos on any arguments.  The loop
\* goes on to its next turn as long as there is one, and random.choice does
\* not withhold for ever a sample that would be kept or would raise.
SpecRandom ==
    RandomSpecInit /\ [][RandomNext]_vars /\ WF_vars(Draw)
        /\ WF_vars(ReturnRandom)

\* _generate_param_combos on any arguments, called twice
SpecParams == ParamsSpecInit /\ [][ParamsSpecNext]_vars

\* ===================================================================
\* Properties of AssetProcessor (specification Spec)
\* ===================================================================
RunEnded == pc \in {"returned", "raised"}

RECURSIVE SumPnl(_)
SumPnl(ts) == IF ts = <<>> THEN 0 ELSE ts[1].pnl + SumPnl(Tail(ts))

\* The bars after the entry of held position p whose close reaches its
\* stop-loss or take-profit
ExitBars(p) ==
    {j \in (p.entry_time + 1)..Len(closes) : ShouldExit(p, closes[j])}

\* C1: once AssetProcessor.run has ended on a non-empty series, whatever the
\* strategy signalled, the processor holds no open position (final size 0):
\* a position left open by the bars is closed at the last close.
C1_NoOpenPositionAfterRun ==
    (RunEnded /\ Len(closes) > 0) =>
        (~position.present \/ position.size = 0)

\* C2: the stop-loss and take-profit of the open position are checked on
\* every bar, ahead of the strategy: a position whose stop or target is
\* reached by the close of a bar after its entry is not left to the end of
\* the run, the run is still going on towards the bar that closes it.
C2_StopsCheckedOnEveryBar ==
    (position.present /\ ExitBars(position) # {}) => pc = "running"

\* C3: a long position with stop-loss s is closed at the first bar after its
\* entry whose close is <= s: the run never ends holding a long position
\* whose stop-loss a bar after its entry reached.
C3_LongStoppedAtFirstBarBelowStop ==
    RunEnded =>
        ~(/\ position.present
          /\ position.size > 0
          /\ position.stop_loss # NoLevel
          /\ \E j \in (position.entry_time + 1)..Len(closes) :
                closes[j] <= position.stop_loss)

\* C5: after each bar an equity value is recorded for it, equal to the
\* initial capital plus the pnl of the trades closed so far plus the
\* unrealized pnl, at that bar's close, of the position then open.
C5_EquityIsRealizedPlusUnrealized ==
    (pc \in {"running", "returned", "raised"} /\ error # "StrategyError") =>
        /\ Len(equity) = idx + 1
        /\ equity[Len(equity)] =
              InitialCapital + SumPnl(trades)
                  + (IF position.present
                     THEN (closes[idx] - position.entry_price) * position.size
                     ELSE 0)

\* C6: when strategy.next raises on a bar, the bar is treated as one without
\* signal: position and trades are as the stop check left them, the bar's
\* equity value is recorded, and run goes on with the following bars.
C6_StrategyErrorIsNoSignal ==
    [][(pc = "running" /\ idx' = idx + 1 /\ lastRaised') =>
          LET s1 == CheckStops(Proc, closes[idx + 1], idx + 1)
          IN /\ position' = s1.position
             /\ trades' = s1.trades
             /\ Len(equity') = Len(equity) + 1
             /\ pc' = "running"]_vars

\* strategy.next raised on a bar after bars that recorded trades, and bars
\* remain to be processed
C6_Witness ==
    /\ lastRaised
    /\ pc = "running"
    /\ trades # <<>>
    /\ Len(equity) = idx + 1
    /\ idx < Len(closes)

\* ===================================================================
\* Properties of _close_position (specification SpecClose)
\* ===================================================================
\* C4 as stated: every recorded trade has pnl = (exit_price - entry_price) *
\* size when long and (entry_price - exit_price) * size when short, size
\* being the size the trade carries.
C4_PnlNegatedForShorts ==
    \A i \in 1..Len(ctrades) :
        LET t == ctrades[i]
        IN /\ t.size > 0 => t.pnl = (t.exit_price - t.entry_price) * t.size
           /\ t.size < 0 => t.pnl = (t.entry_price - t.exit_price) * t.size

\* C4 amended: every recorded trade has pnl = (exit_price - entry_price) *
\* size with the signed size it carries (negative for a short), that is
\* (exit_price - entry_price) * |size| when long and
\* (entry_price - exit_price) * |size| when short.
C4_PnlOfSignedSize ==
    \A i \in 1..Len(ctrades) :
        LET t == ctrades[i]
        IN /\ t.pnl = (t.exit_price - t.entry_price) * t.size
           /\ t.size > 0 =>
                 t.pnl = (t.exit_price - t.entry_price) * Abs(t.size)
           /\ t.size < 0 =>
                 t.pnl = (t.entry_price - t.exit_price) * Abs(t.size)

\* a short position closed below its entry price: a profit
C4_Witness ==
    \E i \in 1..Len(ctrades) :
        /\ ctrades[i].size < 0
        /\ ctrades[i].exit_price < ctrades[i].entry_price
        /\ ctrades[i].pnl > 0

\* ===================================================================
\* Properties of _combine_results (specification SpecCombine)
\* ===================================================================
\* The combined list holds every trade of every asset result, each once,
\* and nothing else
AllTradesOnce(ts) ==
    /\ \A k \in 1..Len(results) :
          \A i \in 1..Len(results[k].trades) :
              Cardinality({j \in 1..Len(ts) : ts[j] = results[k].trades[i]})
                  = 1
    /\ \A j \in 1..Len(ts) :
          \E k \in 1..Len(results) :
              \E i \in 1..Len(results[k].trades) :
                  ts[j] = results[k].trades[i]

SortedByEntryTime(ts) ==
    \A i \in 1..Len(ts), j \in 1..Len(ts) :
        i < j => ts[i].stats.entry_time <= ts[j].stats.entry_time

\* The place of asset a in the order of supply
SupplyRank(a) == CHOOSE k \in 1..Len(supplied) : supplied[k] = a

\* C8 as stated: the combined trade list holds every trade of every asset
\* exactly once, sorted by entry time, and trades of equal entry time are in
\* the order of their assets' names, whatever the order of supply.
C8_TiesOrderedByAssetName ==
    epc = "returned" =>
        LET ts == result.trades
        IN /\ AllTradesOnce(ts)
           /\ SortedByEntryTime(ts)
           /\ \A i \in 1..Len(ts), j \in 1..Len(ts) :
                 (i < j /\ ts[i].stats.entry_time = ts[j].stats.entry_time)
                     => ts[i].symbol <= ts[j].symbol

\* C8 amended: the combined trade list holds every trade of every asset
\* exactly once, sorted by entry time, and trades of equal entry time are in
\* the order in which their assets were supplied, those of one asset in the
\* order in which it recorded them.
C8_TiesKeepSupplyOrder ==
    epc = "returned" =>
        LET ts == result.trades
        IN /\ AllTradesOnce(ts)
           /\ SortedByEntryTime(ts)
           /\ \A i \in 1..Len(ts), j \in 1..Len(ts) :
                 (i < j /\ ts[i].stats.entry_time = ts[j].stats.entry_time)
                     => \/ SupplyRank(ts[i].symbol) < SupplyRank(ts[j].symbol)
                        \/ /\ ts[i].symbol = ts[j].symbol
                           /\ ts[i].n < ts[j].n

\* two assets supplied against the order of their names, with trades of
\* equal entry time, have been combined
C8_Witness ==
    /\ epc = "returned"
    /\ Len(supplied) = 2
    /\ supplied[1] > supplied[2]
    /\ Len(result.trades) = 2
    /\ result.trades[1].stats.entry_time = result.trades[2].stats.entry_time
    /\ result.trades[1].symbol = supplied[1]

\* The sum, at timestamp t, of the assets' equity values, an asset without
\* bar at t counting for its starting capital
RECURSIVE SumCarried(_, _)
SumCarried(rs, t) ==
    IF rs = <<>>
    THEN 0
    ELSE (IF t \in DOMAIN rs[1].equity
          THEN rs[1].equity[t]
          ELSE InitialCapital)
            + SumCarried(Tail(rs), t)

\* C9: the combined equity curve covers the union of the assets' timestamps
\* and is, at each timestamp, the sum of the assets' equity values, an asset
\* without bar at that timestamp contributing its starting capital and never
\* zero; for a single asset it is that asset's own curve.
C9_MissingBarCarriesStartingCapital ==
    epc = "returned" =>
        LET eq == result.equity_curve
        IN /\ DOMAIN eq =
                 UNION {DOMAIN results[k].equity : k \in 1..Len(results)}
           /\ \A t \in DOMAIN eq : eq[t] = SumCarried(results, t)
           /\ Len(results) = 1 => eq = results[1].equity

\* ===================================================================
\* Properties of run_backtest and optimize_strategy (specification
\* SpecEngine)
\* ===================================================================
\* C7: if the processor of any asset raises during run_backtest, the run
\* raises that processor's error and returns no BacktestResult: the results
\* of the other assets are never merged.
C7_WorkerErrorFailsWholeRun ==
    (call = "run_backtest" /\ \E k \in Tasks : outcome[k].raised) =>
        /\ epc # "returned"
        /\ result = NoResult
        /\ epc = "raised" =>
              /\ eerror.kind = "worker"
              /\ outcome[eerror.of].raised

\* run_backtest has raised the error of one asset's processor after the
\* processor of another asset had ended with a result
C7_Witness ==
    /\ call = "run_backtest"
    /\ epc = "raised"
    /\ eerror.kind = "worker"
    /\ result = NoResult
    /\ \E j \in Tasks : ~outcome[j].raised /\ wstate[j] = "done"

\* C10: whatever the order in which the workers complete, run_backtest
\* returns the BacktestResult of the assets' results taken in the order of
\* supply, and optimize_strategy the table of the parameter sets that did
\* not fail, in the order of enumeration, with the first of the best rows as
\* best_params; the result is built only when every worker is done.
C10_CompletionOrderNeverChangesOutput ==
    epc = "returned" =>
        /\ \A k \in Tasks : wstate[k] = "done"
        /\ call = "run_backtest" => result = CombineResults(outcome)
        /\ call = "optimize_strategy" =>
              LET ok == {k \in Tasks : ~outcome[k].raised}
                  rows == result.all_results
                  bp == result.best_params
              IN /\ Len(rows) = Cardinality(ok)
                 /\ \A i \in 1..Len(rows) :
                       /\ rows[i].parameters \in ok
                       /\ rows[i].value = outcome[rows[i].parameters].value
                 /\ \A i \in 1..Len(rows), j \in 1..Len(rows) :
                       i < j => rows[i].parameters < rows[j].parameters
                 /\ bp \in ok
                 /\ \A k \in ok :
                       /\ outcome[k].value <= outcome[bp].value
                       /\ k < bp => outcome[k].value < outcome[bp].value

\* run_backtest has returned after the worker of the second asset ended
\* before the worker of the first, both assets having a trade at one time
C10_Witness ==
    /\ call = "run_backtest"
    /\ epc = "returned"
    /\ Len(completed) >= 2
    /\ completed[1] > completed[2]
    /\ \E i \in 1..Len(result.trades), j \in 1..Len(result.trades) :
          /\ i < j
          /\ result.trades[i].symbol # result.trades[j].symbol
          /\ result.trades[i].stats.entry_time
                = result.trades[j].stats.entry_time

\* ===================================================================
\* Properties of _generate_param_combos (specification SpecParams)
\* ===================================================================
\* The values declared for each parameter are pairwise distinct
DistinctValues ==
    \A p \in 1..Len(gspace) :
        \A i \in 1..Len(gspace[p]), j \in 1..Len(gspace[p]) :
            gspace[p][i] = gspace[p][j] => i = j

\* n1 * ... * nk
RECURSIVE NumCombos(_)
NumCombos(space) ==
    IF space = <<>> THEN 1 ELSE Len(space[1]) * NumCombos(Tail(space))

\* The parameter sets over the space: a declared value for each parameter
AllCombos ==
    {c \in [1..Len(gspace) -> ParamValues] :
        \A p \in 1..Len(gspace) :
            \E n \in 1..Len(gspace[p]) : gspace[p][n] = c[p]}

PlaceOf(p, v) == CHOOSE n \in 1..Len(gspace[p]) : gspace[p][n] = v

\* a comes before b in the Cartesian product taken in the order of the
\* parameters
ProductBefore(a, b) ==
    \E p \in 1..Len(gspace) :
        /\ \A q \in 1..(p - 1) : a[q] = b[q]
        /\ PlaceOf(p, a[p]) < PlaceOf(p, b[p])

\* C11: in grid mode without constraints and without cap, over parameters
\* with n1..nk distinct values, the call returns n1 * ... * nk parameter
\* sets, pairwise distinct, each a declared value per parameter, in the
\* order of the Cartesian product taken in the order of the parameters, and
\* a second call returns the same list.
C11_GridIsCartesianProduct ==
    (gmethod = "grid" /\ gconstraints = <<>> /\ gmaxevals = NoCap
        /\ DistinctValues /\ gpc # "start") =>
        /\ gpc = "returned"
        /\ Len(gcombos) = NumCombos(gspace)
        /\ \A i \in 1..Len(gcombos) : gcombos[i] \in AllCombos
        /\ \A i \in 1..Len(gcombos), j \in 1..Len(gcombos) :
              i < j => ProductBefore(gcombos[i], gcombos[j])
        /\ gcall = 2 => gcombos = gfirst.combos

\* the second call over two parameters of two values each has returned
C11_Witness ==
    /\ gmethod = "grid" /\ gconstraints = <<>> /\ gmaxevals = NoCap
    /\ DistinctValues
    /\ gcall = 2
    /\ gpc = "returned"
    /\ Len(gspace) = 2
    /\ Len(gspace[1]) = 2 /\ Len(gspace[2]) = 2
    /\ Len(gcombos) = 4

\* Parameter set combo satisfies constraint c: left OP right
Satisfies(combo, c) ==
    LET val(o) == IF o.kind = "literal" THEN o.at ELSE combo[o.at]
        known(o) == o.kind = "literal" \/ o.at \in DOMAIN combo
    IN /\ known(c.left) /\ known(c.right)
       /\ \/ c.operator = "<" /\ val(c.left) < val(c.right)
          \/ c.operator = "<=" /\ val(c.left) <= val(c.right)
          \/ c.operator = ">" /\ val(c.left) > val(c.right)
          \/ c.operator = ">=" /\ val(c.left) >= val(c.right)
          \/ c.operator = "==" /\ val(c.left) = val(c.right)

SatisfiesAll(combo) ==
    \A n \in 1..Len(gconstraints) : Satisfies(combo, gconstraints[n])

C14_CappedGridIsSeededSample ==
    (gmethod = "grid" /\ gpc = "returned" /\ gmaxevals # NoCap
        /\ gcall = 2 /\ Len(gfirst.combos) = gmaxevals) =>
        /\ Len(gcombos) = gmaxevals
        /\ {gcombos[i] : i \in 1..Len(gcombos)}
              = {gfirst.combos[i] : i \in 1..Len(gfirst.combos)}

\* ===================================================================
\* Properties of optimize_strategy (specification SpecEngine)
\* ===================================================================
\* The row of the table for parameter set k
RowOf(k) ==
    result.all_results[CHOOSE i \in 1..Len(result.all_results) :
                          result.all_results[i].parameters = k]

\* C15: best_params is a parameter set of the successful runs whose metric
\* value is the greatest among them and, among those of that value, the
\* earliest in the order of enumeration (period over [10, 20, 30] with a
\* metric increasing in period: the third).
C15_BestIsFirstMaximum ==
    (call = "optimize_strategy" /\ epc = "returned") =>
        LET rows == result.all_results
            bp == result.best_params
        IN /\ \E i \in 1..Len(rows) : rows[i].parameters = bp
           /\ \A i \in 1..Len(rows) :
                 /\ rows[i].value <= RowOf(bp).value
                 /\ rows[i].parameters < bp =>
                       rows[i].value < RowOf(bp).value

\* the second and the third of three parameter sets share the greatest
\* value, and the second is the best
C15_Witness ==
    /\ call = "optimize_strategy"
    /\ epc = "returned"
    /\ Len(result.all_results) = 3
    /\ result.all_results[1].value < result.all_results[2].value
    /\ result.all_results[2].value = result.all_results[3].value
    /\ result.best_params = 2

\* The parameter sets whose backtest raises, in the order of enumeration
RECURSIVE FailedFrom(_)
FailedFrom(k) ==
    IF k > Len(outcome)
    THEN <<>>
    ELSE (IF outcome[k].raised THEN <<k>> ELSE <<>>) \o FailedFrom(k + 1)

\* C16: when the backtest of a parameter set raises during
\* optimize_strategy, its error never ends the call and no worker is
\* cancelled; when the call ends every parameter set has been evaluated and
\* each failure logged, and a result is returned whenever another parameter
\* set succeeded, with a best_params that is not a failed set.
C16_FailedEvaluationDoesNotAbort ==
    (call = "optimize_strategy" /\ \E k \in Tasks : outcome[k].raised) =>
        /\ eerror.kind # "worker"
        /\ \A k \in Tasks : wstate[k] # "cancelled"
        /\ epc \in {"returned", "raised"} =>
              /\ \A k \in Tasks : wstate[k] = "done"
              /\ consumed = [k \in Tasks |-> k]
              /\ elog = FailedFrom(1)
              /\ (\E k \in Tasks : ~outcome[k].raised) => epc = "returned"
        /\ epc = "returned" => ~outcome[result.best_params].raised

\* the second of three parameter sets failed and the search returned the
\* rows of the other two
C16_Witness ==
    /\ call = "optimize_strategy"
    /\ epc = "returned"
    /\ Len(outcome) = 3
    /\ outcome[2].raised
    /\ elog = <<2>>
    /\ Len(result.all_results) = 2
    /\ result.all_results[2].parameters = 3

\* C17: the results table has one row per attempted parameter set, the
\* failed evaluations included.
C17_TableHasRowPerAttempt ==
    (call = "optimize_strategy" /\ epc = "returned") =>
        /\ Len(result.all_results) = Len(outcome)
        /\ \A k \in Tasks :
              \E i \in 1..Len(result.all_results) :
                  result.all_results[i].parameters = k

\* ===================================================================
\* Properties of _calculate_param_importance (specification
\* SpecImportance)
\* ===================================================================
\* C18: for every non-empty set of successful runs the importance values
\* are non-negative and sum to 100: they are numbers (none is NaN) and they
\* were normalized, that is divided by their positive total and multiplied
\* by 100.
C18_ImportanceSumsTo100 ==
    (ipc = "returned" /\ irows # <<>>) =>
        /\ \A p \in DOMAIN iout.values : iout.values[p] # "nan"
        /\ iout.normalized

\* ===================================================================
\* Properties of signals and orders (specification SpecSignals)
\* ===================================================================
\* The step handles a buy or sell signal of positive size
SignalStep ==
    /\ csignal = NoSignal
    /\ csignal'.action \in {"buy", "sell"}
    /\ csignal'.signal.size > 0

\* C19: a signal that reverses exposure (sell while long, buy while short)
\* closes the position held with exactly one Trade, which carries its entry
\* price, its size and the current price as exit, and opens the opposite
\* position with the signal's size: the position is never replaced without
\* that Trade.
C19_ReversalClosesThenOpens ==
    [][(/\ SignalStep
        /\ cpos.present
        /\ \/ cpos.size > 0 /\ csignal'.action = "sell"
           \/ cpos.size < 0 /\ csignal'.action = "buy") =>
          /\ Len(ctrades') = Len(ctrades) + 1
          /\ LET t == ctrades'[Len(ctrades')]
             IN /\ t.entry_price = cpos.entry_price
                /\ t.exit_price = csignal'.price
                /\ t.size = cpos.size
                /\ t.pnl = (t.exit_price - t.entry_price) * t.size
          /\ cpos'.present
          /\ cpos'.entry_price = csignal'.price
          /\ cpos'.size = IF csignal'.action = "sell"
                          THEN -csignal'.signal.size
                          ELSE csignal'.signal.size]_vars

\* C20: a buy or sell of non-positive size is rejected with ValueError when
\* it is submitted: no order joins the pending orders and the position is
\* unchanged, be it an order handed to StrategyBase.buy or sell or a signal
\* handed to the processor.
C20_NonPositiveSizeRejected ==
    [][/\ (sreq' # NoRequest /\ sreq'.given /\ sreq'.size <= 0
              /\ <<sreq, sorders, serror>>' # <<sreq, sorders, serror>>) =>
             /\ serror' = "ValueError"
             /\ sorders' = sorders
       /\ (csignal = NoSignal /\ csignal'.action \in {"buy", "sell"}
              /\ csignal'.signal.size <= 0) =>
             /\ cpos' = cpos
             /\ ctrades' = ctrades]_vars

\* C21: a buy whose size exceeds the configured position limit is limited:
\* after any buy, position.size <= (initial_capital * position_limit) / price,
\* that is position.size * price <= initial_capital * position_limit.
C21_BuyLimitedByPositionLimit ==
    csignal.action = "buy" =>
        /\ cpos.present
        /\ cpos.size * csignal.price <= climit

\* C23: a position of size 0 has no stop-loss and no take-profit level and
\* no unrealized P&L: closing clears both levels, and no signal creates a
\* position of size 0 that carries a level.
C23_FlatPositionHasNoLevels ==
    (csignal # NoSignal /\ cpos.present /\ cpos.size = 0) =>
        /\ cpos.stop_loss = NoLevel
        /\ cpos.take_profit = NoLevel
        /\ cpos.unrealized_pnl = 0

\* ===================================================================
\* Properties of a strategy's Position (specification SpecOrders)
\* ===================================================================
\* The orders of a list that price triggers
RECURSIVE TriggeredOf(_, _)
TriggeredOf(orders, price) ==
    IF orders = <<>>
    THEN <<>>
    ELSE IF IsTriggered(Head(orders), price)
         THEN <<Head(orders)>> \o TriggeredOf(Tail(orders), price)
         ELSE TriggeredOf(Tail(orders), price)

\* How many of the fills, made in order from a position of that size, close
\* exposure fully or partly (the fill is against the side held)
RECURSIVE ClosingFills(_, _)
ClosingFills(size, fills) ==
    IF fills = <<>>
    THEN 0
    ELSE LET o == Head(fills)
             d == IF o.type = "buy" THEN o.size ELSE -o.size
         IN (IF size * d < 0 THEN 1 ELSE 0)
               + ClosingFills(size + d, Tail(fills))

\* C22: a Trade is created exactly once per closed exposure, at the moment
\* the position is fully or partly closed, never on a fill that opens or
\* increases exposure: every step adds as many Trades as it closes
\* exposures, so the Trades always number the completed round-trips.
C22_TradePerClosedExposure ==
    [][Len(ptrades') =
          Len(ptrades)
             + (IF plast'.op = "update"
                THEN ClosingFills(psize, TriggeredOf(porders, plast'.price))
                ELSE 0)]_vars

\* C24: every order of the pending list has status pending, and an order
\* that has left the list is filled or cancelled (a terminal status), so it
\* is never triggered again.
C24_OrdersLeaveListWithTerminalStatus ==
    /\ \A i \in 1..Len(porders) : porders[i].status = "pending"
    /\ \A i \in 1..Len(pgone) :
          /\ pgone[i].status \in {"filled", "cancelled"}
          /\ \A price \in Prices : ~IsTriggered(pgone[i], price)

\* ===================================================================
\* The equity series of a run (specification Spec)
\* ===================================================================
\* C25: once AssetProcessor has processed the N bars of a series, its equity
\* series holds exactly one value per bar, N values for N bars, so that run
\* returns a result indexed by the timestamps of the bars.
C25_EquityHasOneValuePerBar ==
    (/\ Len(closes) > 0
     /\ idx = Len(closes)
     /\ pc = "running" \/ pc = "returned" \/ error = "ValueError") =>
        /\ Len(equity) = Len(closes)
        /\ pc # "raised"

\* ===================================================================
\* The workers of an optimization (specification SpecPool)
\* ===================================================================
\* The tasks running at the same time: the parameter sets in the outer pool
\* and the assets in the pools of their backtests
RECURSIVE InnerRunning(_)
InnerRunning(k) ==
    IF k = 0 THEN 0 ELSE inner[k].running + InnerRunning(k - 1)

RunningWorkers ==
    Cardinality({k \in Tasks : wstate[k] = "running"})
        + InnerRunning(Len(inner))

\* C26: during optimize_strategy the workers running at the same time,
\* those of the parameter sets together with those of the assets of their
\* backtests, never exceed the one worker budget (the core count).
C26_WorkersWithinGlobalBudget ==
    call = "optimize_strategy" => RunningWorkers <= MaxWorkers

\* ===================================================================
\* Invalid optimization requests (specification SpecParams)
\* ===================================================================
\* The method is unsupported, or a constraint has an unsupported operator
InvalidRequest ==
    \/ gmethod \notin {"grid", "random"}
    \/ \E i \in 1..Len(gconstraints) : gconstraints[i].operator \notin Operators

\* C27: an invalid optimization request makes optimize_strategy raise
\* ValueError before any backtest worker is started, whatever the other
\* constraints and the parameter values are: the generation of the parameter
\* sets, which comes first, ends by raising ValueError, or at least hands
\* back no parameter set to submit (max of the empty results then raises
\* ValueError).
C27_InvalidRequestRaisesValueError ==
    (InvalidRequest /\ gpc \in {"returned", "raised"}) =>
        \/ gpc = "raised" /\ gerror = "ValueError"
        \/ gpc = "returned" /\ gcombos = <<>>

\* ===================================================================
\* Properties of EngineRegistry (specification SpecRegistry)
\* ===================================================================
\* C28: after any calls of register, unregister, set_default_engine and
\* clear, default_engine is None exactly when no engine is registered and
\* otherwise names a registered engine; a call that fails leaves the engines
\* and the default as they were.
C28_DefaultNamesRegisteredEngine ==
    /\ [](/\ rdefault = NoEngine <=> rengines = <<>>
          /\ rdefault # NoEngine => IsRegistered(rengines, rdefault))
    /\ [][rlast'.error # "none" =>
             /\ rengines' = rengines
             /\ rdefault' = rdefault]_vars

\* The default engine was unregistered and another engine took its place
C28_Witness ==
    /\ rlast.op = "unregister"
    /\ rlast.error = "none"
    /\ rlast.name < rdefault
    /\ Len(rengines) = MaxEngines - 1
    /\ rdefault = rengines[1]

\* ===================================================================
\* Termination of the random branch (specification SpecRandom)
\* ===================================================================
\* C29: random-mode generation terminates for every parameter space and
\* every constraint list, also when few or no combinations of the space
\* satisfy the constraints: a call with a cap on the evaluations returns or
\* raises.
C29_RandomGenerationTerminates ==
    (gmethod = "random" /\ gmaxevals # NoCap /\ gpc = "start")
        ~> (gpc \in {"returned", "raised"})

=============================================================================
